---- MODULE Spec2Model ----
(***************************************************************************)
(* The roleplay game engine of the EduParent backend: the session map of   *)
(* api/roleplay.py, the GameState of roleplay/models/game_state.py, the    *)
(* engine of roleplay/services/game_engine.py and the two agents of        *)
(* roleplay/agents.                                                        *)
(*                                                                         *)
(* Optional[T] values are sequences: <<>> is None, <<x>> is the value x.   *)
(* A session id n stands for the string "session_n".                       *)
(***************************************************************************)
EXTENDS Integers, Sequences, FiniteSets, TLC

VARIABLES
    game_sessions,      \* api/roleplay.py: session id -> GameState
    services_evaluation,\* whether the deployment has a module
                        \* app/roleplay/services/evaluation exporting
                        \* ScenarioCompletion, which game_engine.py:155 imports
                        \* (the class is defined in roleplay/models/evaluation.py;
                        \* the sources have no such module under services)
    response,           \* the answer to the last request or engine call
    agent_call,         \* the last direct call of an agent and its result
    in_flight           \* submit_response requests suspended in an agent call:
                        \* request -> the locals of its coroutine

vars == <<game_sessions, services_evaluation, response, agent_call, in_flight>>

\* ------------------------------------------------------------------ bounds
\* rounds of the multi-round scenario school_dropoff_anxiety that the model
\* follows (the evaluator's prompt describes three)
MaxRounds == 2
\* submissions accepted past the attempt budget / history entries past
\* max_rounds before the model stops following a session
MaxOverrun == 1

\* ------------------------------------------------------- program constants
MAX_ATTEMPTS == 3
max_round_attempts == 3
PassingScore == 7
FallbackScore == 2
DefaultMaxScore == 3

None == <<>>
Some(x) == <<x>>

Range(s) == {s[i] : i \in DOMAIN s}

RECURSIVE SumSeq(_)
SumSeq(s) == IF s = <<>> THEN 0 ELSE Head(s) + SumSeq(Tail(s))

\* sum(d.values()) of a dictionary d
RECURSIVE SumValues(_)
SumValues(d) ==
    IF DOMAIN d = {} THEN 0
    ELSE LET k == CHOOSE x \in DOMAIN d : TRUE
         IN  d[k] + SumValues([x \in DOMAIN d \ {k} |-> d[x]])

Languages == {"en", "zh-HK"}
ParentTexts == {"parent text"}

\* ---------------------------------------------------------- Scenario Store
\* A title is kept as what the engine's title-to-file mapping reads from it:
\* whether its lower case contains "school drop", whether it contains
\* "messy", and the result of replace(" ","_").lower().replace("-","_").
Title(sd, ms, slug) == [school_drop |-> sd, messy |-> ms, slug |-> slug]

RoundCriteria ==
    << <<"emotion_acknowledgment", "tone_empathy", "solution_approach">>,
       <<"fear_validation", "concrete_reassurance", "collaborative_approach">>,
       <<"transition_strategy", "child_agency", "follow_through_clarity">> >>

\* RoundData: evaluation_criteria and pass_threshold (default 7)
RoundData(i, criteria, threshold) ==
    [round |-> i, evaluation_criteria |-> criteria, pass_threshold |-> threshold]

\* The scenario files of the data directory.  messy_room is a single-round
\* scenario; school_dropoff_anxiety has MaxRounds rounds with the default
\* threshold; bedtime_routine has two rounds, a criterion outside the
\* evaluator's table, a threshold that the fallback score reaches, and no
\* Cantonese title.
ScenarioFiles ==
    [ messy_room |->
        [ case_name    |-> Title(FALSE, TRUE, "messy_room"),
          case_name_zh |-> Some(Title(FALSE, FALSE, "zh_messy_room")),
          multi_round  |-> FALSE,
          rounds       |-> None ],
      school_dropoff_anxiety |->
        [ case_name    |-> Title(TRUE, FALSE, "school_drop_off_anxiety"),
          case_name_zh |-> Some(Title(FALSE, FALSE, "zh_school_dropoff")),
          multi_round  |-> TRUE,
          rounds       |-> Some([i \in 1..MaxRounds |->
                              RoundData(i, RoundCriteria[((i - 1) % 3) + 1], PassingScore)]) ],
      bedtime_routine |->
        [ case_name    |-> Title(FALSE, FALSE, "bedtime_routine"),
          case_name_zh |-> None,
          multi_round  |-> TRUE,
          rounds       |-> Some(<< RoundData(1, <<"tone_empathy", "bedtime_calm">>, 4),
                                   RoundData(2, <<"child_agency", "bedtime_calm">>, 5) >>) ] ]

ScenarioNames == DOMAIN ScenarioFiles
RequestNames == ScenarioNames \cup {"no_such_scenario"}

\* ScenarioLoader.load_scenario
load_scenario(scenario_name) ==
    IF scenario_name \in ScenarioNames THEN Some(ScenarioFiles[scenario_name]) ELSE None

\* ScenarioLoader.list_scenarios: sorted, school_dropoff_anxiety hidden
list_scenarios == <<"bedtime_routine", "messy_room">>

\* ScenarioLoader.get_default_scenario
get_default_scenario ==
    IF list_scenarios # <<>> THEN load_scenario(list_scenarios[1]) ELSE None

\* Scenario.get_title
get_title(scenario, language) ==
    IF language = "zh-HK" /\ scenario.case_name_zh # None
    THEN scenario.case_name_zh[1]
    ELSE scenario.case_name

\* Scenario.is_multi_round
is_multi_round(scenario) == scenario.multi_round /\ scenario.rounds # None

\* Scenario.max_rounds
max_rounds(scenario) == IF is_multi_round(scenario) THEN Len(scenario.rounds[1]) ELSE 1

\* Scenario.get_round_data (1-indexed)
get_round_data(scenario, round_number) ==
    IF ~is_multi_round(scenario) \/ scenario.rounds[1] = <<>>
    THEN None
    ELSE IF 0 <= round_number - 1 /\ round_number - 1 < Len(scenario.rounds[1])
         THEN Some(scenario.rounds[1][round_number])
         ELSE None

\* ------------------------------------------------------- Evaluation Agent
\* What a generative-model call gives back: raised is TRUE when agent.run
\* raises or json.loads rejects the cleaned output; otherwise data is the
\* parsed dictionary, each key present (Some) or absent (None).
AgentFailure == [raised |-> TRUE]

SingleDict(tone, approach, respect, total, passed) ==
    [raised |-> FALSE, tone_score |-> tone, approach_score |-> approach,
     respect_score |-> respect, total_score |-> total, feedback |-> Some("model feedback"),
     passed |-> passed]

\* Model outputs of the single-round evaluator that the model follows: a
\* consistent pass, a consistent fail, two outputs whose total_score or
\* passed disagree with the three scores, and one without total_score.
SingleOutputs ==
    { AgentFailure,
      SingleDict(Some(4), Some(3), Some(3), Some(10), Some(TRUE)),
      SingleDict(Some(1), Some(1), Some(1), Some(3), Some(FALSE)),
      SingleDict(Some(1), Some(1), Some(1), Some(3), Some(TRUE)),
      SingleDict(Some(4), Some(3), Some(3), Some(5), Some(FALSE)),
      SingleDict(Some(4), Some(3), Some(3), None, Some(TRUE)) }

\* EvaluationAgent._create_fallback_evaluation
CreateFallbackEvaluation(language) ==
    [ tone_score |-> FallbackScore, approach_score |-> FallbackScore,
      respect_score |-> FallbackScore, total_score |-> 6,
      feedback |-> IF language = "en" THEN "fallback en" ELSE "fallback zh-HK",
      passed |-> FALSE ]

\* EvaluationResult.from_dict raises KeyError on an absent key
EvaluationResultHasKeys(data) ==
    /\ data.tone_score # None /\ data.approach_score # None
    /\ data.respect_score # None /\ data.total_score # None
    /\ data.feedback # None /\ data.passed # None

\* EvaluationResult.from_dict
EvaluationResultFromDict(data) ==
    [ tone_score |-> data.tone_score[1], approach_score |-> data.approach_score[1],
      respect_score |-> data.respect_score[1], total_score |-> data.total_score[1],
      feedback |-> data.feedback[1], passed |-> data.passed[1] ]

\* EvaluationAgent.evaluate
evaluate(out, language) ==
    IF out.raised \/ ~EvaluationResultHasKeys(out)
    THEN CreateFallbackEvaluation(language)
    ELSE EvaluationResultFromDict(out)

\* max_scores of evaluate_multi_round, with max_scores.get(criterion, 3)
max_scores(criterion) ==
    CASE criterion = "emotion_acknowledgment" -> 3
      [] criterion = "tone_empathy" -> 2
      [] criterion = "solution_approach" -> 3
      [] criterion = "fear_validation" -> 4
      [] criterion = "concrete_reassurance" -> 3
      [] criterion = "collaborative_approach" -> 3
      [] criterion = "transition_strategy" -> 4
      [] criterion = "child_agency" -> 3
      [] criterion = "follow_through_clarity" -> 3
      [] OTHER -> DefaultMaxScore

MaxPossible(criteria) == SumSeq([i \in DOMAIN criteria |-> max_scores(criteria[i])])

MultiDict(scores, total, feedback, passed) ==
    [raised |-> FALSE, criteria_scores |-> scores, total_score |-> total,
     max_possible_score |-> Some(10), feedback |-> feedback,
     detailed_feedback |-> [c \in DOMAIN scores |-> "model detail"], passed |-> passed]

\* Model outputs of the multi-round evaluator that the model follows, for a
\* round's criteria: full marks, one mark per criterion, one mark per
\* criterion under a total_score of full marks, and a dictionary without
\* total_score; each with either value of the model's own `passed`.
MultiOutputs(criteria) ==
    LET cs   == Range(criteria)
        full == [c \in cs |-> max_scores(c)]
        ones == [c \in cs |-> 1]
    IN  {AgentFailure} \cup
        { MultiDict(d[1], d[2], Some("model feedback"), p) :
            d \in { <<full, Some(MaxPossible(criteria))>>,
                    <<ones, Some(Len(criteria))>>,
                    <<ones, Some(MaxPossible(criteria))>>,
                    <<ones, None>> },
            p \in BOOLEAN }

\* the multi-round evaluator's outputs followed during gameplay: a failure,
\* full marks that the model itself calls a fail, and one mark per criterion
\* that the model itself calls a pass
PlayMultiOutputs(criteria) ==
    LET cs == Range(criteria)
    IN  { AgentFailure,
          MultiDict([c \in cs |-> max_scores(c)], Some(MaxPossible(criteria)),
                    Some("model feedback"), FALSE),
          MultiDict([c \in cs |-> 1], Some(Len(criteria)), Some("model feedback"), TRUE) }

\* _create_fallback_multi_round_evaluation scoring each criterion 3
CreateFallbackMultiRoundEvaluation_three(criteria, round_number, language) ==
    LET criteria_scores == [c \in Range(criteria) |-> DefaultMaxScore]
    IN  [ criteria_scores |-> criteria_scores,
          total_score |-> SumValues(criteria_scores),
          max_possible_score |-> Len(criteria) * 3,
          feedback |-> IF language = "en" THEN "fallback en" ELSE "fallback zh-HK",
          detailed_feedback |-> [c \in Range(criteria) |->
                                   IF language = "en" THEN "System error" ELSE "zh-HK system error"],
          passed |-> FALSE,
          round_number |-> round_number ]

\* EvaluationAgent._create_fallback_multi_round_evaluation
CreateFallbackMultiRoundEvaluation(criteria, round_number, language) ==
    LET criteria_scores == [c \in Range(criteria) |-> FallbackScore]
    IN  [ criteria_scores |-> criteria_scores,
          total_score |-> SumValues(criteria_scores),
          max_possible_score |-> Len(criteria) * 3,
          feedback |-> IF language = "en" THEN "fallback en" ELSE "fallback zh-HK",
          detailed_feedback |-> [c \in Range(criteria) |->
                                   IF language = "en" THEN "System error" ELSE "zh-HK system error"],
          passed |-> FALSE,
          round_number |-> round_number ]

\* evaluate_multi_round keeping the model's own `passed`
RecomputePassed_trusting(data, threshold) == data.passed

\* eval_data["passed"] = eval_data.get("total_score", 0) >= threshold
RecomputePassed(data, threshold) ==
    (IF data.total_score # None THEN data.total_score[1] ELSE 0) >= threshold

\* MultiRoundEvaluationResult.from_dict raises KeyError without total_score
\* or feedback; the other keys have defaults or were just assigned
MultiRoundHasKeys(data) == data.total_score # None /\ data.feedback # None

\* MultiRoundEvaluationResult.from_dict, after evaluate_multi_round has
\* assigned max_possible_score and passed
MultiRoundFromDict(data, max_possible, passed, round_number) ==
    [ criteria_scores |-> data.criteria_scores,
      total_score |-> data.total_score[1],
      max_possible_score |-> max_possible,
      feedback |-> data.feedback[1],
      detailed_feedback |-> data.detailed_feedback,
      passed |-> passed,
      round_number |-> round_number ]

\* EvaluationAgent.evaluate_multi_round
evaluate_multi_round(out, criteria, threshold, round_number, language) ==
    IF out.raised \/ ~MultiRoundHasKeys(out)
    THEN CreateFallbackMultiRoundEvaluation(criteria, round_number, language)
    ELSE MultiRoundFromDict(out, MaxPossible(criteria),
                            RecomputePassed(out, threshold), round_number)

\* ---------------------------------------------------- Teen-Response Agent
TeenDict(resp, emotion) == [raised |-> FALSE, response |-> resp, emotion |-> emotion]

TeenOutputs ==
    { AgentFailure,
      TeenDict(Some("model reply"), Some("reluctant")),
      TeenDict(Some("model reply"), None),
      TeenDict(None, Some("upset")) }

\* the teen responder's outputs followed during gameplay
PlayTeenOutputs == {AgentFailure, TeenDict(Some("model reply"), Some("reluctant"))}

\* _create_fallback_response cooperating only above 7
CreateFallbackResponse_above(score, language) ==
    IF language = "en"
    THEN IF score > 7
         THEN [response |-> "Okay, I understand what you're saying", emotion |-> "cooperative"]
         ELSE [response |-> "I don't want to talk about this right now", emotion |-> "defensive"]
    ELSE IF score > 7
         THEN [response |-> "zh-HK: okay, I understand", emotion |-> "cooperative"]
         ELSE [response |-> "zh-HK: I don't want to talk", emotion |-> "defensive"]

\* TeenResponderAgent._create_fallback_response
CreateFallbackResponse(score, language) ==
    IF language = "en"
    THEN IF score >= 7
         THEN [response |-> "Okay, I understand what you're saying", emotion |-> "cooperative"]
         ELSE [response |-> "I don't want to talk about this right now", emotion |-> "defensive"]
    ELSE IF score >= 7
         THEN [response |-> "zh-HK: okay, I understand", emotion |-> "cooperative"]
         ELSE [response |-> "zh-HK: I don't want to talk", emotion |-> "defensive"]

\* TeenResponse.from_dict
TeenResponseFromDict(data) ==
    [ response |-> data.response[1],
      emotion |-> IF data.emotion # None THEN data.emotion[1] ELSE "neutral" ]

\* TeenResponderAgent.respond
respond(score, out, language) ==
    IF out.raised \/ out.response = None
    THEN CreateFallbackResponse(score, language)
    ELSE TeenResponseFromDict(out)

\* ---------------------------------------------------------------- GameState
\* GameState as built by RoleplayGameEngine.create_game_state; teen_opening
\* is kept as the number of the round whose prompt it holds.
NewGameState(scenario, language) ==
    [ scenario_title |-> get_title(scenario, language),
      teen_opening |-> 1,
      is_multi_round |-> is_multi_round(scenario),
      language |-> language,
      parent_response |-> "",
      attempts |-> 0,
      max_attempts |-> MAX_ATTEMPTS,
      current_round |-> 1,
      max_rounds |-> IF is_multi_round(scenario) THEN max_rounds(scenario) ELSE 1,
      round_attempts |-> 0,
      max_round_attempts |-> max_round_attempts,
      round_history |-> <<>>,
      evaluation |-> None,
      multi_round_evaluation |-> None,
      teen_response |-> None,
      game_completed |-> FALSE,
      final_score |-> None,
      scenario_completion |-> None ]

\* RoleplayGameEngine.create_game_state
create_game_state(scenario_name, language) ==
    LET scenario == IF scenario_name # None THEN load_scenario(scenario_name[1])
                    ELSE get_default_scenario
    IN  IF scenario = None THEN None ELSE Some(NewGameState(scenario[1], language))

\* GameState.can_retry
can_retry(gs) ==
    IF gs.is_multi_round
    THEN gs.round_attempts < gs.max_round_attempts /\ ~gs.game_completed
    ELSE gs.attempts < gs.max_attempts /\ ~gs.game_completed

\* GameState.is_passed
is_passed(gs) ==
    IF gs.is_multi_round
    THEN gs.multi_round_evaluation # None /\ gs.multi_round_evaluation[1].passed
    ELSE gs.evaluation # None /\ gs.evaluation[1].passed

\* GameState.increment_attempt
increment_attempt(gs) ==
    IF gs.is_multi_round
    THEN [gs EXCEPT !.round_attempts = @ + 1]
    ELSE [gs EXCEPT !.attempts = @ + 1]

\* GameState.advance_to_next_round
gs_advance_to_next_round(gs) ==
    IF gs.is_multi_round /\ gs.current_round < gs.max_rounds
    THEN [gs EXCEPT !.current_round = @ + 1,
                    !.round_attempts = 0,
                    !.parent_response = "",
                    !.teen_response = None,
                    !.multi_round_evaluation = None]
    ELSE gs

\* can_advance_round without the check that rounds remain
can_advance_round_any_round(gs) ==
    /\ gs.is_multi_round
    /\ (is_passed(gs) \/ gs.round_attempts >= gs.max_round_attempts)

\* GameState.can_advance_round
can_advance_round(gs) ==
    /\ gs.is_multi_round
    /\ gs.current_round < gs.max_rounds
    /\ (is_passed(gs) \/ gs.round_attempts >= gs.max_round_attempts)

\* GameState.complete_game
complete_game(gs, final_score) ==
    [gs EXCEPT !.game_completed = TRUE, !.final_score = final_score]

\* ------------------------------------------------------------------ Engine
\* the title-to-file mapping of process_parent_response and
\* advance_to_next_round
ScenarioNameOfTitle(title) ==
    IF title.school_drop THEN "school_dropoff_anxiety"
    ELSE IF title.messy THEN "messy_room"
    ELSE title.slug

\* int(x) of a fraction num/den with den > 0: truncation towards zero
IntOf(q) == IF q.num >= 0 THEN q.num \div q.den ELSE -((-q.num) \div q.den)

\* the generator expressions of _create_scenario_completion
PassedResults(round_history) == SelectSeq(round_history, LAMBDA r : r.evaluation.passed)

PassedTotal(round_history) ==
    LET passed == PassedResults(round_history)
    IN  SumSeq([i \in DOMAIN passed |-> passed[i].evaluation.total_score])

\* the mean taken over every round of the history
AvgScore_all_rounds(round_history) ==
    IF Len(round_history) > 0
    THEN [num |-> SumSeq([i \in DOMAIN round_history |->
                            round_history[i].evaluation.total_score]),
          den |-> Len(round_history)]
    ELSE [num |-> 0, den |-> 1]

\* avg_score = total_score / rounds_passed if rounds_passed > 0 else 0,
\* kept as the fraction num/den
AvgScore(round_history) ==
    LET rounds_passed == Len(PassedResults(round_history))
    IN  IF rounds_passed > 0
        THEN [num |-> PassedTotal(round_history), den |-> rounds_passed]
        ELSE [num |-> 0, den |-> 1]

\* _create_scenario_completion granting mastery for any passed round
create_scenario_completion_any_pass(gs, scenario) ==
    LET rounds_passed == Len(PassedResults(gs.round_history))
        avg_score == AvgScore(gs.round_history)
        mastery == rounds_passed > 0
    IN  [ scenario_name |-> scenario.case_name,
          rounds_completed |-> Len(gs.round_history),
          total_rounds |-> gs.max_rounds,
          rounds_passed |-> rounds_passed,
          overall_score |-> avg_score,
          mastery_achieved |-> mastery,
          badges_earned |-> (IF mastery THEN <<"scenario_mastery">> ELSE <<>>)
                            \o (IF avg_score.num >= 9 * avg_score.den
                                THEN <<"expert_communicator">> ELSE <<>>),
          communication_techniques_unlocked |->
              IF mastery THEN <<"separation_anxiety_management">> ELSE <<>> ]

\* RoleplayGameEngine._create_scenario_completion, after its import
create_scenario_completion(gs, scenario) ==
    LET rounds_passed == Len(PassedResults(gs.round_history))
        avg_score == AvgScore(gs.round_history)
        mastery == rounds_passed = gs.max_rounds
        expert == avg_score.num >= 9 * avg_score.den
    IN  [ scenario_name |-> scenario.case_name,
          rounds_completed |-> Len(gs.round_history),
          total_rounds |-> gs.max_rounds,
          rounds_passed |-> rounds_passed,
          overall_score |-> avg_score,
          mastery_achieved |-> mastery,
          badges_earned |-> (IF mastery THEN <<"scenario_mastery">> ELSE <<>>)
                            \o (IF expert THEN <<"expert_communicator">> ELSE <<>>),
          communication_techniques_unlocked |->
              IF mastery THEN <<"separation_anxiety_management">> ELSE <<>> ]

\* The result of an engine call: the GameState as the call left it, and
\* whether the call raised.
Returned(gs) == [state |-> gs, raised |-> FALSE]
Raised(gs) == [state |-> gs, raised |-> TRUE]

\* _process_single_round_response passing the score to complete_game also
\* when the attempts ran out
process_single_round_response_scored(gs, evalOut, teenOut) ==
    LET evaluation == evaluate(evalOut, gs.language)
        teen_response == respond(evaluation.total_score, teenOut, gs.language)
        gs1 == [gs EXCEPT !.evaluation = Some(evaluation),
                          !.teen_response = Some(teen_response.response)]
    IN  IF evaluation.passed \/ ~can_retry(gs1)
        THEN Returned(complete_game(gs1, Some(evaluation.total_score)))
        ELSE Returned(gs1)

\* RoleplayGameEngine._process_single_round_response
process_single_round_response(gs, evalOut, teenOut) ==
    LET evaluation == evaluate(evalOut, gs.language)
        teen_response == respond(evaluation.total_score, teenOut, gs.language)
        gs1 == [gs EXCEPT !.evaluation = Some(evaluation),
                          !.teen_response = Some(teen_response.response)]
    IN  IF evaluation.passed
        THEN Returned(complete_game(gs1, Some(evaluation.total_score)))
        ELSE IF ~can_retry(gs1)
             THEN Returned(complete_game(gs1, None))
             ELSE Returned(gs1)

\* the round-resolution branch of _process_multi_round_response; the
\* completed_at timestamp of the RoundResult is left out.  When the import
\* of _create_scenario_completion fails the call raises after the append.
ResolveRound(gs, parent_response, teen_response, evaluation, scenario, importable) ==
    LET round_result == [ round_number |-> gs.current_round,
                          parent_response |-> parent_response,
                          child_response |-> teen_response.response,
                          evaluation |-> evaluation,
                          attempts_used |-> gs.round_attempts ]
        gs1 == [gs EXCEPT !.round_history = Append(@, round_result)]
    IN  IF gs1.current_round >= gs1.max_rounds
        THEN IF importable
             THEN LET completion == create_scenario_completion(gs1, scenario)
                  IN  Returned(complete_game(
                          [gs1 EXCEPT !.scenario_completion = Some(completion)],
                          Some(IntOf(completion.overall_score))))
             ELSE Raised(gs1)
        ELSE Returned(gs_advance_to_next_round(gs1))

\* _process_multi_round_response saving a RoundResult on every submission
process_multi_round_response_recording(gs, parent_response, scenario, evalOut, teenOut, importable) ==
    LET round_data == get_round_data(scenario, gs.current_round)
    IN  IF round_data = None
        THEN Returned(gs)
        ELSE LET evaluation == evaluate_multi_round(evalOut, round_data[1].evaluation_criteria,
                                   round_data[1].pass_threshold, gs.current_round, gs.language)
                 teen_response == respond(evaluation.total_score, teenOut, gs.language)
                 gs1 == [gs EXCEPT !.multi_round_evaluation = Some(evaluation),
                                   !.teen_response = Some(teen_response.response)]
                 round_result == [ round_number |-> gs1.current_round,
                                   parent_response |-> parent_response,
                                   child_response |-> teen_response.response,
                                   evaluation |-> evaluation,
                                   attempts_used |-> gs1.round_attempts ]
             IN  IF evaluation.passed \/ gs1.round_attempts >= gs1.max_round_attempts
                 THEN ResolveRound(gs1, parent_response, teen_response, evaluation,
                                   scenario, importable)
                 ELSE Returned([gs1 EXCEPT !.round_history = Append(@, round_result)])

\* RoleplayGameEngine._process_multi_round_response
process_multi_round_response(gs, parent_response, scenario, evalOut, teenOut, importable) ==
    LET round_data == get_round_data(scenario, gs.current_round)
    IN  IF round_data = None
        THEN Returned(gs)
        ELSE LET evaluation == evaluate_multi_round(evalOut, round_data[1].evaluation_criteria,
                                   round_data[1].pass_threshold, gs.current_round, gs.language)
                 teen_response == respond(evaluation.total_score, teenOut, gs.language)
                 gs1 == [gs EXCEPT !.multi_round_evaluation = Some(evaluation),
                                   !.teen_response = Some(teen_response.response)]
             IN  IF evaluation.passed \/ gs1.round_attempts >= gs1.max_round_attempts
                 THEN ResolveRound(gs1, parent_response, teen_response, evaluation,
                                   scenario, importable)
                 ELSE Returned(gs1)

\* process_parent_response raising when the scenario is not found
process_parent_response_strict(gs, parent_response, evalOut, teenOut, importable) ==
    LET gs1 == increment_attempt([gs EXCEPT !.parent_response = parent_response])
        scenario == load_scenario(ScenarioNameOfTitle(gs1.scenario_title))
    IN  IF scenario = None
        THEN Raised(gs1)
        ELSE IF gs1.is_multi_round
             THEN process_multi_round_response(gs1, parent_response, scenario[1],
                                               evalOut, teenOut, importable)
             ELSE process_single_round_response(gs1, evalOut, teenOut)

\* RoleplayGameEngine.process_parent_response
process_parent_response(gs, parent_response, evalOut, teenOut, importable) ==
    LET gs1 == increment_attempt([gs EXCEPT !.parent_response = parent_response])
        scenario == load_scenario(ScenarioNameOfTitle(gs1.scenario_title))
    IN  IF scenario = None
        THEN process_single_round_response(gs1, evalOut, teenOut)
        ELSE IF gs1.is_multi_round
             THEN process_multi_round_response(gs1, parent_response, scenario[1],
                                               evalOut, teenOut, importable)
             ELSE process_single_round_response(gs1, evalOut, teenOut)

\* advance_to_next_round without asking can_advance_round
advance_to_next_round_unchecked(gs) ==
    LET scenario == load_scenario(ScenarioNameOfTitle(gs.scenario_title))
    IN  IF scenario # None
        THEN LET gs1 == gs_advance_to_next_round(gs)
                 round_data == get_round_data(scenario[1], gs1.current_round)
             IN  IF round_data # None
                 THEN [gs1 EXCEPT !.teen_opening = round_data[1].round]
                 ELSE gs1
        ELSE gs

\* RoleplayGameEngine.advance_to_next_round
advance_to_next_round(gs) ==
    IF can_advance_round(gs)
    THEN LET scenario == load_scenario(ScenarioNameOfTitle(gs.scenario_title))
         IN  IF scenario # None
             THEN LET gs1 == gs_advance_to_next_round(gs)
                      round_data == get_round_data(scenario[1], gs1.current_round)
                  IN  IF round_data # None
                      THEN [gs1 EXCEPT !.teen_opening = round_data[1].round]
                      ELSE gs1
             ELSE gs
    ELSE gs

\* ------------------------------------------------------- boundary layer
Answer(op, sid, status, detail) ==
    [op |-> op, session |-> sid, status |-> status, detail |-> detail]

\* the session ids the model follows
OneSession == {0}

\* The model outputs the evaluator called for this GameState can give: the
\* dispatch of process_parent_response decides which evaluator is called.
EvaluatorOutputs(gs) ==
    LET scenario == load_scenario(ScenarioNameOfTitle(gs.scenario_title))
    IN  IF scenario # None /\ gs.is_multi_round
        THEN LET round_data == get_round_data(scenario[1], gs.current_round)
             IN  IF round_data = None THEN {AgentFailure}
                 ELSE PlayMultiOutputs(round_data[1].evaluation_criteria)
        ELSE SingleOutputs

\* The model stops following a session whose counters have left the attempt
\* budget or whose history has left max_rounds by MaxOverrun.
WithinOverrun(gs) ==
    /\ gs.round_attempts < gs.max_round_attempts + MaxOverrun
    /\ gs.attempts < gs.max_attempts + MaxOverrun
    /\ Len(gs.round_history) < gs.max_rounds + MaxOverrun

NoCall == [fn |-> "none"]

Init ==
    /\ game_sessions = <<>>
    /\ services_evaluation \in BOOLEAN
    /\ response = Answer("none", None, 0, "")
    /\ agent_call = NoCall
    /\ in_flight = <<>>

\* start_game: POST /game/start
StartGame(ids, scenario_name, language) ==
    LET game_state == create_game_state(scenario_name, language)
        session_id == Cardinality(DOMAIN game_sessions)
    IN  IF game_state = None
        THEN \* the HTTPException(404) is raised inside the try block and
             \* caught by `except Exception`, which answers 500
             /\ response' = Answer("start_game", None, 500, "404: Scenario not found")
             /\ UNCHANGED <<game_sessions, services_evaluation, agent_call, in_flight>>
        ELSE /\ session_id \in ids
             /\ game_sessions' = [sid \in DOMAIN game_sessions \cup {session_id} |->
                                     IF sid = session_id THEN game_state[1]
                                     ELSE game_sessions[sid]]
             /\ response' = Answer("start_game", Some(session_id), 200, "")
             /\ UNCHANGED <<services_evaluation, agent_call, in_flight>>

\* submit_response without its game_completed check
SubmitResponse_unchecked(sid, parent_response, evalOut, teenOut) ==
    IF sid \notin DOMAIN game_sessions
    THEN /\ response' = Answer("submit_response", Some(sid), 404, "Game session not found")
         /\ UNCHANGED <<game_sessions, services_evaluation, agent_call, in_flight>>
    ELSE LET result == process_parent_response(game_sessions[sid], parent_response,
                                               evalOut, teenOut, services_evaluation)
         IN  /\ WithinOverrun(game_sessions[sid])
             /\ game_sessions' = [game_sessions EXCEPT ![sid] = result.state]
             /\ response' = IF result.raised
                            THEN Answer("submit_response", Some(sid), 500,
                                        "No module named 'app.roleplay.services.evaluation'")
                            ELSE Answer("submit_response", Some(sid), 200, "")
             /\ UNCHANGED <<services_evaluation, agent_call, in_flight>>

\* submit_response: POST /game/respond/{session_id}
SubmitResponse(sid, parent_response, evalOut, teenOut) ==
    IF sid \notin DOMAIN game_sessions
    THEN /\ response' = Answer("submit_response", Some(sid), 404, "Game session not found")
         /\ UNCHANGED <<game_sessions, services_evaluation, agent_call, in_flight>>
    ELSE IF game_sessions[sid].game_completed
    THEN /\ response' = Answer("submit_response", Some(sid), 400, "Game already completed")
         /\ UNCHANGED <<game_sessions, services_evaluation, agent_call, in_flight>>
    ELSE LET result == process_parent_response(game_sessions[sid], parent_response,
                                               evalOut, teenOut, services_evaluation)
         IN  /\ WithinOverrun(game_sessions[sid])
             \* the engine mutates the GameState object held by the map, so
             \* the map shows the mutations also when the call raises
             /\ game_sessions' = [game_sessions EXCEPT ![sid] = result.state]
             /\ response' = IF result.raised
                            THEN Answer("submit_response", Some(sid), 500,
                                        "No module named 'app.roleplay.services.evaluation'")
                            ELSE Answer("submit_response", Some(sid), 200, "")
             /\ UNCHANGED <<services_evaluation, agent_call, in_flight>>

\* end_game: DELETE /game/end/{session_id}
EndGame(sid) ==
    IF sid \notin DOMAIN game_sessions
    THEN /\ response' = Answer("end_game", Some(sid), 404, "Game session not found")
         /\ UNCHANGED <<game_sessions, services_evaluation, agent_call, in_flight>>
    ELSE /\ game_sessions' = [s \in DOMAIN game_sessions \ {sid} |-> game_sessions[s]]
         /\ response' = Answer("end_game", Some(sid), 200, "Game session ended")
         /\ UNCHANGED <<services_evaluation, agent_call, in_flight>>

StartGameAny(ids) ==
    \E scenario_name \in {None} \cup {Some(n) : n \in RequestNames}, language \in Languages :
        StartGame(ids, scenario_name, language)

SubmitResponseAny(ids) ==
    \E sid \in ids, parent_response \in ParentTexts, teenOut \in PlayTeenOutputs :
        \E evalOut \in IF sid \in DOMAIN game_sessions
                       THEN EvaluatorOutputs(game_sessions[sid]) ELSE {AgentFailure} :
            SubmitResponse(sid, parent_response, evalOut, teenOut)

EndGameAny(ids) == \E sid \in ids : EndGame(sid)

Next ==
    \/ StartGameAny(OneSession)
    \/ SubmitResponseAny(OneSession)
    \/ EndGameAny(OneSession)

Spec == Init /\ [][Next]_vars

\* ------------------------------------------------ direct calls of the engine
\* engine.process_parent_response called on a session's GameState without
\* the checks of submit_response
EngineProcess(sid, parent_response, evalOut, teenOut) ==
    /\ sid \in DOMAIN game_sessions
    /\ WithinOverrun(game_sessions[sid])
    /\ LET result == process_parent_response(game_sessions[sid], parent_response,
                                             evalOut, teenOut, services_evaluation)
       IN  /\ game_sessions' = [game_sessions EXCEPT ![sid] = result.state]
           /\ response' = Answer("process_parent_response", Some(sid), 0,
                                 IF result.raised THEN "raised" ELSE "returned")
    /\ UNCHANGED <<services_evaluation, agent_call, in_flight>>

\* engine.advance_to_next_round called on a session's GameState
EngineAdvance(sid) ==
    /\ sid \in DOMAIN game_sessions
    /\ game_sessions' = [game_sessions EXCEPT ![sid] = advance_to_next_round(@)]
    /\ response' = Answer("advance_to_next_round", Some(sid), 0, "returned")
    /\ UNCHANGED <<services_evaluation, agent_call, in_flight>>

EngineProcessAny(ids) ==
    \E sid \in ids \cap DOMAIN game_sessions, parent_response \in ParentTexts,
       teenOut \in PlayTeenOutputs :
        \E evalOut \in EvaluatorOutputs(game_sessions[sid]) :
            EngineProcess(sid, parent_response, evalOut, teenOut)

EngineAdvanceAny(ids) == \E sid \in ids : EngineAdvance(sid)

NextEngine ==
    \/ StartGameAny(OneSession)
    \/ EngineProcessAny(OneSession)
    \/ EngineAdvanceAny(OneSession)
    \/ EndGameAny(OneSession)

\* the engine driven by a caller that does not go through submit_response
SpecEngine == Init /\ [][NextEngine]_vars

\* ------------------------------------------------ direct calls of the agents
\* the criteria lists and thresholds the evaluator is called with: those of
\* the scenario files, each list with each threshold
CallCriteria ==
    UNION { {ScenarioFiles[n].rounds[1][i].evaluation_criteria :
                i \in DOMAIN ScenarioFiles[n].rounds[1]} :
            n \in {m \in ScenarioNames : ScenarioFiles[m].rounds # None} }

CallThresholds ==
    UNION { {ScenarioFiles[n].rounds[1][i].pass_threshold :
                i \in DOMAIN ScenarioFiles[n].rounds[1]} :
            n \in {m \in ScenarioNames : ScenarioFiles[m].rounds # None} }

CallScores == {0, 6, 7, 10}

\* the language parameter is any string of the request: the two locales and
\* one that is neither
CallLanguages == Languages \cup {"fr"}

EvaluateCall(out, language) ==
    /\ agent_call' = [fn |-> "evaluate", out |-> out, language |-> language,
                      result |-> evaluate(out, language)]
    /\ UNCHANGED <<game_sessions, services_evaluation, response, in_flight>>

EvaluateMultiRoundCall(out, criteria, threshold, round_number, language) ==
    /\ agent_call' = [fn |-> "evaluate_multi_round", out |-> out, criteria |-> criteria,
                      threshold |-> threshold, round_number |-> round_number,
                      language |-> language,
                      result |-> evaluate_multi_round(out, criteria, threshold,
                                                      round_number, language)]
    /\ UNCHANGED <<game_sessions, services_evaluation, response, in_flight>>

RespondCall(score, out, language) ==
    /\ agent_call' = [fn |-> "respond", score |-> score, out |-> out,
                      language |-> language, result |-> respond(score, out, language)]
    /\ UNCHANGED <<game_sessions, services_evaluation, response, in_flight>>

NextAgents ==
    \/ \E out \in SingleOutputs, language \in Languages : EvaluateCall(out, language)
    \/ \E criteria \in CallCriteria, threshold \in CallThresholds, language \in Languages :
         \E out \in MultiOutputs(criteria) :
            EvaluateMultiRoundCall(out, criteria, threshold, 1, language)
    \/ \E score \in CallScores, out \in TeenOutputs, language \in CallLanguages :
            RespondCall(score, out, language)

SpecAgents == Init /\ [][NextAgents]_vars

\* ------------------------------------------- gameplay with no model at all
\* every agent call fails
SubmitResponseUnavailable(ids) ==
    \E sid \in ids, parent_response \in ParentTexts :
        SubmitResponse(sid, parent_response, AgentFailure, AgentFailure)

NextUnavailable ==
    \/ StartGameAny(OneSession)
    \/ SubmitResponseUnavailable(OneSession)
    \/ EndGameAny(OneSession)

SpecUnavailable == Init /\ [][NextUnavailable]_vars

\* --------------------------------- submissions suspended in an agent call
\* submit_response is a coroutine on the server's event loop: it runs without
\* interruption up to the await of an agent's model call, where the loop may
\* run another request, and there is no lock around it.
Requests == {1, 2}
TwoSessions == {0, 1}

\* the scenarios and model outputs followed while requests overlap
OverlapNames == {"bedtime_routine", "messy_room"}

OverlapEvaluatorOutputs(req) ==
    IF req.round_data = None
    THEN {AgentFailure, SingleDict(Some(4), Some(3), Some(3), Some(10), Some(TRUE))}
    ELSE LET criteria == req.round_data[1].evaluation_criteria
         IN  { AgentFailure,
               MultiDict([c \in Range(criteria) |-> max_scores(c)],
                         Some(MaxPossible(criteria)), Some("model feedback"), TRUE) }

\* the end of _process_single_round_response, after the teen's reply
single_round_completion(gs, evaluation) ==
    IF evaluation.passed
    THEN Returned(complete_game(gs, Some(evaluation.total_score)))
    ELSE IF ~can_retry(gs)
         THEN Returned(complete_game(gs, None))
         ELSE Returned(gs)

\* the end of _process_multi_round_response, after the teen's reply
multi_round_completion(gs, parent_response, teen_response, evaluation, scenario, importable) ==
    IF evaluation.passed \/ gs.round_attempts >= gs.max_round_attempts
    THEN ResolveRound(gs, parent_response, teen_response, evaluation, scenario, importable)
    ELSE Returned(gs)

\* submit_response from its start to the await of the evaluator's model call
SubmitBegin(r, sid, parent_response) ==
    /\ r \notin DOMAIN in_flight
    /\ IF sid \notin DOMAIN game_sessions
       THEN /\ response' = Answer("submit_response", Some(sid), 404, "Game session not found")
            /\ UNCHANGED <<game_sessions, services_evaluation, agent_call, in_flight>>
       ELSE IF game_sessions[sid].game_completed
       THEN /\ response' = Answer("submit_response", Some(sid), 400, "Game already completed")
            /\ UNCHANGED <<game_sessions, services_evaluation, agent_call, in_flight>>
       ELSE LET gs1 == increment_attempt(
                          [game_sessions[sid] EXCEPT !.parent_response = parent_response])
                scenario == load_scenario(ScenarioNameOfTitle(gs1.scenario_title))
                multi == scenario # None /\ gs1.is_multi_round
                round_data == IF multi THEN get_round_data(scenario[1], gs1.current_round)
                              ELSE None
            IN  /\ WithinOverrun(game_sessions[sid])
                /\ game_sessions' = [game_sessions EXCEPT ![sid] = gs1]
                /\ IF multi /\ round_data = None
                   THEN /\ response' = Answer("submit_response", Some(sid), 200, "")
                        /\ UNCHANGED in_flight
                   ELSE /\ in_flight' =
                             [q \in DOMAIN in_flight \cup {r} |->
                                IF q = r
                                THEN [ session |-> sid, awaiting |-> "evaluate",
                                       parent_response |-> parent_response,
                                       scenario |-> scenario, round_data |-> round_data,
                                       round_number |-> gs1.current_round,
                                       evaluation |-> None ]
                                ELSE in_flight[q]]
                        /\ UNCHANGED response
                /\ UNCHANGED <<services_evaluation, agent_call>>

\* the evaluator's call returning with the evaluation stored on every
\* GameState of the session map
SubmitEvaluated_every_session(r, evalOut) ==
    /\ r \in DOMAIN in_flight
    /\ in_flight[r].awaiting = "evaluate"
    /\ LET req == in_flight[r]
           gs  == game_sessions[req.session]
           evaluation ==
               IF req.round_data = None
               THEN evaluate(evalOut, gs.language)
               ELSE evaluate_multi_round(evalOut, req.round_data[1].evaluation_criteria,
                        req.round_data[1].pass_threshold, req.round_number, gs.language)
       IN  /\ game_sessions' =
                 [s \in DOMAIN game_sessions |->
                    IF req.round_data = None
                    THEN [game_sessions[s] EXCEPT !.evaluation = Some(evaluation)]
                    ELSE [game_sessions[s] EXCEPT !.multi_round_evaluation = Some(evaluation)]]
           /\ in_flight' = [in_flight EXCEPT ![r] =
                 [req EXCEPT !.awaiting = "respond", !.evaluation = Some(evaluation)]]
    /\ UNCHANGED <<services_evaluation, response, agent_call>>

\* the evaluator's call returns: the evaluation is stored and the coroutine
\* runs on to the await of the teen responder's model call
SubmitEvaluated(r, evalOut) ==
    /\ r \in DOMAIN in_flight
    /\ in_flight[r].awaiting = "evaluate"
    /\ LET req == in_flight[r]
           sid == req.session
           gs  == game_sessions[sid]
           evaluation ==
               IF req.round_data = None
               THEN evaluate(evalOut, gs.language)
               ELSE evaluate_multi_round(evalOut, req.round_data[1].evaluation_criteria,
                        req.round_data[1].pass_threshold, req.round_number, gs.language)
       IN  /\ game_sessions' =
                 [game_sessions EXCEPT ![sid] =
                    IF req.round_data = None
                    THEN [gs EXCEPT !.evaluation = Some(evaluation)]
                    ELSE [gs EXCEPT !.multi_round_evaluation = Some(evaluation)]]
           /\ in_flight' = [in_flight EXCEPT ![r] =
                 [req EXCEPT !.awaiting = "respond", !.evaluation = Some(evaluation)]]
    /\ UNCHANGED <<services_evaluation, response, agent_call>>

\* the teen responder's call returns: the coroutine runs to its end and the
\* request is answered
SubmitResponded(r, teenOut) ==
    /\ r \in DOMAIN in_flight
    /\ in_flight[r].awaiting = "respond"
    /\ LET req == in_flight[r]
           sid == req.session
           gs  == game_sessions[sid]
           evaluation == req.evaluation[1]
           teen_response == respond(evaluation.total_score, teenOut, gs.language)
           gs1 == [gs EXCEPT !.teen_response = Some(teen_response.response)]
           result == IF req.round_data = None
                     THEN single_round_completion(gs1, evaluation)
                     ELSE multi_round_completion(gs1, req.parent_response, teen_response,
                              evaluation, req.scenario[1], services_evaluation)
       IN  /\ game_sessions' = [game_sessions EXCEPT ![sid] = result.state]
           /\ response' = IF result.raised
                          THEN Answer("submit_response", Some(sid), 500,
                                      "No module named 'app.roleplay.services.evaluation'")
                          ELSE Answer("submit_response", Some(sid), 200, "")
           /\ in_flight' = [q \in DOMAIN in_flight \ {r} |-> in_flight[q]]
    /\ UNCHANGED <<services_evaluation, agent_call>>

\* slots: the pairs <<request, session>> that may be submitted
OverlapStep(ids, slots) ==
    \/ \E scenario_name \in OverlapNames : StartGame(ids, Some(scenario_name), "en")
    \/ \E slot \in slots, parent_response \in ParentTexts :
          SubmitBegin(slot[1], slot[2], parent_response)
    \/ \E r \in DOMAIN in_flight :
          \E evalOut \in OverlapEvaluatorOutputs(in_flight[r]) : SubmitEvaluated(r, evalOut)
    \/ \E r \in DOMAIN in_flight : SubmitResponded(r, AgentFailure)

NextOverlap == OverlapStep(OneSession, Requests \X OneSession)

\* the boundary layer with up to two requests in flight on one session, the
\* session not ended meanwhile
SpecOverlap == Init /\ [][NextOverlap]_vars

NextParallel == OverlapStep(TwoSessions, {<<1, 0>>, <<2, 1>>})

\* the boundary layer with two sessions and a request in flight on each
SpecParallel == Init /\ [][NextParallel]_vars

NextAdvance ==
    \/ StartGameAny(OneSession)
    \/ \E sid \in OneSession, parent_response \in ParentTexts :
          SubmitBegin(1, sid, parent_response)
    \/ \E r \in DOMAIN in_flight :
          \E evalOut \in OverlapEvaluatorOutputs(in_flight[r]) : SubmitEvaluated(r, evalOut)
    \/ \E r \in DOMAIN in_flight : SubmitResponded(r, AgentFailure)
    \/ EngineAdvanceAny(OneSession)

\* engine.advance_to_next_round called at any moment of a session, also
\* while a submission is suspended in an agent call
SpecAdvance == Init /\ [][NextAdvance]_vars

\* ------------------------------------------- sessions started and ended
NextSessions ==
    \/ StartGameAny(TwoSessions)
    \/ SubmitResponseUnavailable(TwoSessions)
    \/ EndGameAny(TwoSessions)

\* the boundary layer with up to two sessions in the map, played with every
\* agent call failing
SpecSessions == Init /\ [][NextSessions]_vars

\* ------------------------------------- one scenario played in two locales
\* a model output of the evaluator that `gs` calls, with the given outcome:
\* full marks for a pass, one mark per criterion for a fail
OutcomeOutput(gs, pass) ==
    LET scenario == load_scenario(ScenarioNameOfTitle(gs.scenario_title))
        round_data == IF scenario # None /\ gs.is_multi_round
                      THEN get_round_data(scenario[1], gs.current_round) ELSE None
    IN  IF round_data = None
        THEN IF pass THEN SingleDict(Some(4), Some(3), Some(3), Some(10), Some(TRUE))
             ELSE SingleDict(Some(1), Some(1), Some(1), Some(3), Some(FALSE))
        ELSE LET criteria == round_data[1].evaluation_criteria
             IN  IF pass
                 THEN MultiDict([c \in Range(criteria) |-> max_scores(c)],
                                Some(MaxPossible(criteria)), Some("model feedback"), TRUE)
                 ELSE MultiDict([c \in Range(criteria) |-> 1],
                                Some(Len(criteria)), Some("model feedback"), FALSE)

\* submit_response on a session's GameState with that outcome: the state it
\* leaves and its answer
AfterSubmission(sid, gs, parent_response, pass) ==
    IF gs.game_completed
    THEN [state |-> gs,
          answer |-> Answer("submit_response", Some(sid), 400, "Game already completed")]
    ELSE LET result == process_parent_response(gs, parent_response, OutcomeOutput(gs, pass),
                                               AgentFailure, services_evaluation)
         IN  [state |-> result.state,
              answer |-> IF result.raised
                         THEN Answer("submit_response", Some(sid), 500,
                                     "No module named 'app.roleplay.services.evaluation'")
                         ELSE Answer("submit_response", Some(sid), 200, "")]

\* start_game called twice for one multi-round scenario: session 0 with
\* locale 'en', session 1 with locale 'zh-HK'
StartLocalePair(scenario_name) ==
    /\ game_sessions = <<>>
    /\ is_multi_round(ScenarioFiles[scenario_name])
    /\ game_sessions' = [sid \in TwoSessions |->
                            create_game_state(Some(scenario_name),
                                              IF sid = 0 THEN "en" ELSE "zh-HK")[1]]
    /\ response' = Answer("start_game", Some(1), 200, "")
    /\ UNCHANGED <<services_evaluation, agent_call, in_flight>>

\* submit_response called on both sessions, the evaluations of the two
\* submissions having the same outcome
SubmitLocalePair(parent_response, pass) ==
    /\ DOMAIN game_sessions = TwoSessions
    /\ \E sid \in TwoSessions : ~game_sessions[sid].game_completed
    /\ \A sid \in TwoSessions : WithinOverrun(game_sessions[sid])
    /\ game_sessions' = [sid \in TwoSessions |->
                            AfterSubmission(sid, game_sessions[sid], parent_response, pass).state]
    /\ response' = AfterSubmission(1, game_sessions[1], parent_response, pass).answer
    /\ UNCHANGED <<services_evaluation, agent_call, in_flight>>

NextLocales ==
    \/ \E scenario_name \in ScenarioNames : StartLocalePair(scenario_name)
    \/ \E parent_response \in ParentTexts, pass \in BOOLEAN :
          SubmitLocalePair(parent_response, pass)

SpecLocales == Init /\ [][NextLocales]_vars

\* ================================================================== claims
Sessions == DOMAIN game_sessions

\* the scenario file the engine finds for a session's title
ResolvedScenario(gs) == load_scenario(ScenarioNameOfTitle(gs.scenario_title))

\* a session that the engine plays round by round
PlayedMultiRound(gs) == gs.is_multi_round /\ ResolvedScenario(gs) # None

\* C1: in every session, after any number of submissions made through
\* submit_response, round_attempts <= max_round_attempts and
\* attempts <= max_attempts.
C1_AttemptsWithinBudget ==
    \A sid \in Sessions :
        /\ game_sessions[sid].round_attempts <= game_sessions[sid].max_round_attempts
        /\ game_sessions[sid].attempts <= game_sessions[sid].max_attempts

\* C2: in a multi-round session round_history holds exactly one RoundResult
\* per resolved round: its round numbers are strictly increasing (so none is
\* repeated), every round before the current one has its entry, and its
\* length never exceeds max_rounds.
C2_OneResultPerRound ==
    \A sid \in Sessions :
        LET gs == game_sessions[sid]
            h  == gs.round_history
        IN  gs.is_multi_round =>
              /\ \A i, j \in DOMAIN h : i < j => h[i].round_number < h[j].round_number
              /\ Len(h) <= gs.max_rounds
              /\ PlayedMultiRound(gs) =>
                    \A k \in 1..(gs.current_round - 1) :
                        \E i \in DOMAIN h : h[i].round_number = k

\* a session each of whose rounds was passed at the first submission
PassedEveryRoundAtOnce(gs) ==
    /\ PlayedMultiRound(gs)
    /\ Len(gs.round_history) = gs.max_rounds
    /\ \A i \in DOMAIN gs.round_history :
          /\ gs.round_history[i].evaluation.passed
          /\ gs.round_history[i].attempts_used = 1
          /\ gs.round_history[i].round_number = i

\* C3: after a passing submission in each of the N rounds of a scenario the
\* game is completed, round_history has N entries and scenario_completion is
\* set with mastery_achieved.
C3_AllRoundsPassedCompletes ==
    \A sid \in Sessions :
        LET gs == game_sessions[sid]
        IN  PassedEveryRoundAtOnce(gs) =>
              /\ gs.game_completed
              /\ Len(gs.round_history) = gs.max_rounds
              /\ gs.scenario_completion # None
              /\ gs.scenario_completion[1].mastery_achieved

\* C4: a submit request against a session whose game_completed is true is
\* answered 400 "Game already completed" and leaves the session map, hence
\* every field of the session's GameState, unchanged.
C4_CompletedSubmitRejected ==
    [][\A sid \in Sessions :
          ( /\ game_sessions[sid].game_completed
            /\ response'.op = "submit_response"
            /\ response'.session = Some(sid) )
          => ( /\ response'.status = 400
               /\ response'.detail = "Game already completed"
               /\ game_sessions' = game_sessions )]_vars

\* a submit request was rejected on a completed session
C4_Witness ==
    \E sid \in Sessions :
        /\ game_sessions[sid].game_completed
        /\ response = Answer("submit_response", Some(sid), 400, "Game already completed")

\* the gameplay fields of a GameState
GameplayFields(gs) ==
    << gs.attempts, gs.round_attempts, gs.current_round, gs.round_history,
       gs.final_score, gs.scenario_completion >>

C6_SingleRoundCompletion ==
    \A sid \in Sessions :
        LET gs == game_sessions[sid]
        IN  ~gs.is_multi_round =>
              IF gs.evaluation = None
              THEN ~gs.game_completed /\ gs.final_score = None
              ELSE /\ gs.game_completed <=>
                        (gs.evaluation[1].passed \/ gs.attempts >= gs.max_attempts)
                   /\ gs.final_score = IF gs.evaluation[1].passed
                                       THEN Some(gs.evaluation[1].total_score)
                                       ELSE None

\* a single-round session completed by max_attempts failing submissions
C6_Witness ==
    \E sid \in Sessions :
        LET gs == game_sessions[sid]
        IN  /\ ~gs.is_multi_round
            /\ gs.game_completed
            /\ gs.attempts = gs.max_attempts
            /\ gs.evaluation # None /\ ~gs.evaluation[1].passed
            /\ gs.final_score = None

\* a result built by one of the evaluator's fallbacks
FallbackResult(result) == result.feedback \in {"fallback en", "fallback zh-HK"}

MultiRoundCalled == agent_call.fn = "evaluate_multi_round"

\* C7 as claimed: every result of evaluate_multi_round, parsed or fallback,
\* has passed iff total_score >= the caller's threshold.
C7_PassedIffThreshold ==
    MultiRoundCalled =>
        (agent_call.result.passed <=> agent_call.result.total_score >= agent_call.threshold)

\* C7 as amended: on the parsed path passed iff total_score >= the caller's
\* threshold, whatever `passed` the model reported; on the fallback path
\* passed is false and total_score is 2 per criterion, whatever the threshold.
C7_PassedRecomputed ==
    MultiRoundCalled =>
        IF FallbackResult(agent_call.result)
        THEN /\ ~agent_call.result.passed
             /\ agent_call.result.total_score = 2 * Len(agent_call.criteria)
        ELSE agent_call.result.passed <=>
                agent_call.result.total_score >= agent_call.threshold

\* a parsed result whose passed differs from the model's own `passed`
C7_Witness ==
    /\ MultiRoundCalled
    /\ ~agent_call.out.raised
    /\ ~FallbackResult(agent_call.result)
    /\ agent_call.out.passed # agent_call.result.passed

\* a submission during which an agent's fallback was used
FallbackUsed(gs) ==
    \/ gs.evaluation # None /\ FallbackResult(gs.evaluation[1])
    \/ gs.multi_round_evaluation # None /\ FallbackResult(gs.multi_round_evaluation[1])
    \/ gs.teen_response # None /\
         gs.teen_response[1] \in {CreateFallbackResponse(sc, gs.language).response : sc \in {0, 7}}

\* C8: a submission during which an agent call or the parsing of its output
\* failed is answered with the updated GameState, not with a request failure.
C8_AgentFailureAbsorbed ==
    \A sid \in Sessions :
        ( /\ response.op = "submit_response"
          /\ response.session = Some(sid)
          /\ response.status \notin {400, 404}
          /\ FallbackUsed(game_sessions[sid]) )
        => response.status = 200

\* the rounds of the session's scenario all have a threshold above the
\* fallback score of their criteria
ThresholdsAboveFallback(gs) ==
    LET rounds == ResolvedScenario(gs)[1].rounds[1]
    IN  \A i \in DOMAIN rounds :
            rounds[i].pass_threshold > FallbackScore * Len(rounds[i].evaluation_criteria)

\* C9: when every agent call fails, a multi-round session whose thresholds
\* are above the fallback score is completed exactly when each of its
\* max_rounds rounds has been recorded, each as failed after
\* max_round_attempts submissions, that is after
\* max_rounds * max_round_attempts submissions; a single-round session is
\* completed exactly when attempts = max_attempts.
C9_ProgressWithoutModel ==
    \A sid \in Sessions :
        LET gs == game_sessions[sid]
            h  == gs.round_history
        IN  IF ~gs.is_multi_round
            THEN gs.game_completed <=> gs.attempts = gs.max_attempts
            ELSE (PlayedMultiRound(gs) /\ ThresholdsAboveFallback(gs)) =>
                   /\ gs.game_completed <=> Len(h) = gs.max_rounds
                   /\ \A i \in DOMAIN h :
                         /\ h[i].round_number = i
                         /\ ~h[i].evaluation.passed
                         /\ h[i].attempts_used = gs.max_round_attempts
                   /\ gs.game_completed =>
                         SumSeq([i \in DOMAIN h |-> h[i].attempts_used])
                            = gs.max_rounds * gs.max_round_attempts

\* the rounds of a history whose evaluation passed
PassedRounds(h) == {i \in DOMAIN h : h[i].evaluation.passed}

RECURSIVE TotalOver(_, _)
TotalOver(h, rounds) ==
    IF rounds = {} THEN 0
    ELSE LET i == CHOOSE r \in rounds : TRUE
         IN  h[i].evaluation.total_score + TotalOver(h, rounds \ {i})

FallbackPath ==
    /\ MultiRoundCalled
    /\ (agent_call.out.raised \/ ~MultiRoundHasKeys(agent_call.out))

\* C12: on the fallback path evaluate_multi_round gives each of the n
\* criteria score 2, total_score = 2n, passed = false and exactly one
\* fallback feedback entry per criterion; for fear_validation,
\* concrete_reassurance, collaborative_approach with threshold 7 that is
\* total_score = 6, passed = false and three feedback entries.
C12_FallbackMultiRound ==
    FallbackPath =>
        LET r  == agent_call.result
            cs == agent_call.criteria
        IN  /\ DOMAIN r.criteria_scores = Range(cs)
            /\ \A c \in Range(cs) : r.criteria_scores[c] = 2
            /\ r.total_score = 2 * Len(cs)
            /\ ~r.passed
            /\ DOMAIN r.detailed_feedback = Range(cs)
            /\ Cardinality(DOMAIN r.detailed_feedback) = Len(cs)
            /\ \A c \in Range(cs) :
                  r.detailed_feedback[c] \in {"System error", "zh-HK system error"}
            /\ ( /\ cs = <<"fear_validation", "concrete_reassurance", "collaborative_approach">>
                 /\ agent_call.threshold = 7 )
               => ( /\ r.total_score = 6
                    /\ ~r.passed
                    /\ Cardinality(DOMAIN r.detailed_feedback) = 3 )

\* the fallback path taken for the three criteria of the example, threshold 7
C12_Witness ==
    /\ FallbackPath
    /\ agent_call.out.raised
    /\ agent_call.criteria = <<"fear_validation", "concrete_reassurance", "collaborative_approach">>
    /\ agent_call.threshold = 7
    /\ agent_call.result.total_score = 6

\* C13: with two submissions against one session in flight at once, no
\* interleaving yields round_attempts > max_round_attempts, a round number
\* twice in round_history, or more than max_rounds history entries.  Stated
\* for the deployments where the import of _create_scenario_completion
\* resolves, in which submissions made one after the other keep all three.
C13_OverlapKeepsBounds ==
    \A sid \in Sessions :
        LET gs == game_sessions[sid]
            h  == gs.round_history
        IN  services_evaluation =>
              /\ gs.round_attempts <= gs.max_round_attempts
              /\ \A i, j \in DOMAIN h : i # j => h[i].round_number # h[j].round_number
              /\ Len(h) <= gs.max_rounds

\* the sessions of the requests that a step started, resumed or answered
StepSessions ==
    {in_flight[r].session :
        r \in {q \in DOMAIN in_flight :
                  q \notin DOMAIN in_flight' \/ in_flight'[q] # in_flight[q]}}
    \cup {in_flight'[r].session : r \in DOMAIN in_flight' \ DOMAIN in_flight}

\* C14: submissions against different sessions are independent: under any
\* interleaving, a step of a submission on session A leaves every field of
\* the GameState of every other session B unchanged.
C14_SessionsIndependent ==
    [][\A b \in Sessions :
          (StepSessions # {} /\ b \notin StepSessions)
          => (b \in DOMAIN game_sessions' /\ game_sessions'[b] = game_sessions[b])]_vars

\* two sessions, each with a submission in flight, one of them past its
\* first round and the other with attempts counted
C14_Witness ==
    /\ DOMAIN in_flight = Requests
    /\ {in_flight[r].session : r \in Requests} = TwoSessions
    /\ \E a, b \in Sessions :
          /\ a # b
          /\ game_sessions[a].current_round = 2
          /\ game_sessions[a].round_history # <<>>
          /\ game_sessions[b].attempts + game_sessions[b].round_attempts >= 2

\* the attempt counter that increment_attempt and can_retry use
AttemptCounter(gs) == IF gs.is_multi_round THEN gs.round_attempts ELSE gs.attempts

AttemptBudget(gs) == IF gs.is_multi_round THEN gs.max_round_attempts ELSE gs.max_attempts

\* C15: a submission on a session whose scenario cannot be resolved from
\* its title is answered with the updated GameState, not with a failure,
\* and was processed by the single-round path: the single-round evaluation
\* and the teen reply are set, the game is completed exactly on a pass or on
\* exhausted attempts with final_score set only on a pass, and no
\* multi-round result is recorded.
C15_UnresolvedScenarioDegrades ==
    \A sid \in Sessions :
        LET gs == game_sessions[sid]
        IN  ( /\ ResolvedScenario(gs) = None
              /\ response.op = "submit_response"
              /\ response.session = Some(sid)
              /\ response.status \notin {400, 404} )
            => ( /\ response.status = 200
                 /\ gs.evaluation # None
                 /\ gs.teen_response # None
                 /\ AttemptCounter(gs) >= 1
                 /\ gs.game_completed <=>
                       (gs.evaluation[1].passed \/ AttemptCounter(gs) >= AttemptBudget(gs))
                 /\ gs.final_score = IF gs.evaluation[1].passed
                                     THEN Some(gs.evaluation[1].total_score) ELSE None
                 /\ gs.multi_round_evaluation = None
                 /\ gs.round_history = <<>>
                 /\ gs.scenario_completion = None )

\* a session created as multi-round whose title does not resolve, after a
\* failing submission that left the game open
C15_Witness ==
    \E sid \in Sessions :
        LET gs == game_sessions[sid]
        IN  /\ ResolvedScenario(gs) = None
            /\ gs.is_multi_round
            /\ response = Answer("submit_response", Some(sid), 200, "")
            /\ gs.evaluation # None /\ ~gs.evaluation[1].passed
            /\ ~gs.game_completed

\* the result fields of a GameState agree with its scenario type
FieldsMatchType(gs) ==
    IF gs.is_multi_round
    THEN gs.evaluation = None
    ELSE /\ gs.multi_round_evaluation = None
         /\ gs.round_history = <<>>
         /\ gs.scenario_completion = None

\* C16: in every reachable state a session created with is_multi_round true
\* has no single-round `evaluation`, a session created with is_multi_round
\* false has no multi_round_evaluation, round_history entry or
\* scenario_completion, and no submission changes is_multi_round.
C16_ResultFieldsExclusive ==
    [][\A sid \in DOMAIN game_sessions' :
          /\ FieldsMatchType(game_sessions'[sid])
          /\ (sid \in Sessions /\ response'.op = "submit_response")
             => game_sessions'[sid].is_multi_round = game_sessions[sid].is_multi_round]_vars

\* a step that is a call of engine.advance_to_next_round on session sid
AdvanceStep(sid) ==
    /\ response' = Answer("advance_to_next_round", Some(sid), 0, "returned")
    /\ in_flight' = in_flight

\* C17: advance_to_next_round changes the GameState only when the session
\* is multi-round, the current round has resolved (the latest evaluation
\* passed, or round_attempts >= max_round_attempts) and
\* current_round < max_rounds; in every other state it leaves every field
\* of the GameState as it was.
C17_AdvanceOnlyWhenResolved ==
    [][\A sid \in Sessions :
          AdvanceStep(sid) =>
            LET gs == game_sessions[sid]
            IN  \/ /\ gs.is_multi_round
                   /\ (is_passed(gs) \/ gs.round_attempts >= gs.max_round_attempts)
                   /\ gs.current_round < gs.max_rounds
                \/ game_sessions' = game_sessions]_vars

\* advance_to_next_round has moved a session to its second round: no other
\* operation leaves round 1 without an entry in round_history
C17_Witness ==
    \E sid \in Sessions :
        LET gs == game_sessions[sid]
        IN  /\ response = Answer("advance_to_next_round", Some(sid), 0, "returned")
            /\ gs.is_multi_round
            /\ gs.current_round = 2
            /\ gs.round_attempts = 0
            /\ gs.round_history = <<>>
            /\ gs.teen_opening = 2

\* the sum of the table's maxima over the criteria, 3 for a criterion that
\* the table lacks
TableSum(criteria) == SumSeq([i \in DOMAIN criteria |-> max_scores(criteria[i])])

\* C18: every result of evaluate_multi_round has max_possible_score equal
\* to the sum of the per-criterion maxima of the table, 3 for a criterion
\* outside it, whatever the model reported.
C18_MaxPossibleFromTable ==
    MultiRoundCalled =>
        agent_call.result.max_possible_score = TableSum(agent_call.criteria)

\* C19: every EvaluationResult that evaluate returns, for any model output,
\* has total_score = tone_score + approach_score + respect_score and
\* passed iff total_score >= 7.
C19_SingleRoundTotalAndPassed ==
    agent_call.fn = "evaluate" =>
        LET r == agent_call.result
        IN  /\ r.total_score = r.tone_score + r.approach_score + r.respect_score
            /\ r.passed <=> r.total_score >= 7

\* C20: every MultiRoundEvaluationResult that evaluate_multi_round returns,
\* for any model output, has total_score equal to the sum of the values of
\* its criteria_scores.
C20_MultiRoundTotalIsSum ==
    MultiRoundCalled =>
        agent_call.result.total_score = SumValues(agent_call.result.criteria_scores)

\* respond took its fallback: the model call raised, or its output lacked
\* the key `response`
TeenFallbackPath ==
    /\ agent_call.fn = "respond"
    /\ (agent_call.out.raised \/ agent_call.out.response = None)

\* C21: the teen responder's fallback reply depends only on the score and
\* the locale: for score >= 7 the cooperative stock phrase with emotion
\* 'cooperative', for score < 7 the defensive stock phrase with emotion
\* 'defensive', in English for locale 'en' and in Cantonese otherwise.
C21_TeenFallbackByScoreAndLocale ==
    TeenFallbackPath =>
        LET r == agent_call.result
        IN  /\ r.emotion = IF agent_call.score >= 7 THEN "cooperative" ELSE "defensive"
            /\ r.response =
                  IF agent_call.language = "en"
                  THEN IF agent_call.score >= 7
                       THEN "Okay, I understand what you're saying"
                       ELSE "I don't want to talk about this right now"
                  ELSE IF agent_call.score >= 7
                       THEN "zh-HK: okay, I understand"
                       ELSE "zh-HK: I don't want to talk"

\* the fallback taken at the passing score for a locale that is not 'en',
\* on an output that parsed but had no `response`
C21_Witness ==
    /\ TeenFallbackPath
    /\ ~agent_call.out.raised
    /\ agent_call.score = 7
    /\ agent_call.language = "fr"
    /\ agent_call.result.emotion = "cooperative"

\* a step in which submit_response passed a submission on session sid to
\* the engine
SubmissionStep(sid) ==
    /\ sid \in Sessions
    /\ sid \in DOMAIN game_sessions'
    /\ ~game_sessions[sid].game_completed
    /\ response'.op = "submit_response"
    /\ response'.session = Some(sid)
    /\ response'.status \notin {400, 404}
    /\ game_sessions'[sid] # game_sessions[sid]

\* the submission of the step resolved its round: the evaluation it stored
\* passed, or round_attempts reached max_round_attempts, or the round was
\* left behind (only advancing clears multi_round_evaluation)
ResolvingSubmission(sid) ==
    LET gs2 == game_sessions'[sid]
    IN  \/ gs2.multi_round_evaluation = None
        \/ gs2.multi_round_evaluation[1].passed
        \/ gs2.round_attempts >= gs2.max_round_attempts

\* C22: in a multi-round session whose scenario resolves, a submission that
\* passes or that brings round_attempts to max_round_attempts appends one
\* RoundResult for current_round; then, if current_round < max_rounds,
\* current_round increases by one, round_attempts is 0, the per-round
\* evaluation and reply fields are cleared and the game is not completed,
\* and if current_round = max_rounds the ScenarioCompletion is set and
\* game_completed is true.
C22_RoundResolution ==
    [][\A sid \in Sessions :
          ( /\ SubmissionStep(sid)
            /\ PlayedMultiRound(game_sessions[sid])
            /\ ResolvingSubmission(sid) )
          => LET gs  == game_sessions[sid]
                 gs2 == game_sessions'[sid]
                 h2  == gs2.round_history
             IN  /\ Len(h2) = Len(gs.round_history) + 1
                 /\ SubSeq(h2, 1, Len(gs.round_history)) = gs.round_history
                 /\ h2[Len(h2)].round_number = gs.current_round
                 /\ h2[Len(h2)].attempts_used = gs.round_attempts + 1
                 /\ IF gs.current_round < gs.max_rounds
                    THEN /\ gs2.current_round = gs.current_round + 1
                         /\ gs2.round_attempts = 0
                         /\ gs2.multi_round_evaluation = None
                         /\ gs2.teen_response = None
                         /\ ~gs2.game_completed
                    ELSE /\ gs2.current_round = gs.current_round
                         /\ gs2.scenario_completion # None
                         /\ gs2.game_completed]_vars

\* the latest evaluation of a session created as multi-round: the
\* multi-round one when the scenario resolves, else the single-round one
LatestEvaluation(gs) ==
    IF PlayedMultiRound(gs) THEN gs.multi_round_evaluation ELSE gs.evaluation

\* a GameState without the attempt counter and the latest response,
\* evaluation and reply
WithoutAttemptFields(gs) ==
    [gs EXCEPT !.round_attempts = 0, !.parent_response = "", !.evaluation = None,
               !.multi_round_evaluation = None, !.teen_response = None]

\* C23: in a multi-round session a failing submission made while attempts
\* remain (round_attempts < max_round_attempts after the increment) is a
\* retry: it adds 1 to round_attempts, and apart from the latest response,
\* evaluation and reply it changes no other field, so current_round,
\* round_history, game_completed, final_score and scenario_completion stay.
C23_RetryFrame ==
    [][\A sid \in Sessions :
          LET gs  == game_sessions[sid]
              gs2 == game_sessions'[sid]
          IN  ( /\ SubmissionStep(sid)
                /\ gs.is_multi_round
                /\ LatestEvaluation(gs2) # None
                /\ ~LatestEvaluation(gs2)[1].passed
                /\ gs2.round_attempts < gs2.max_round_attempts )
              => ( /\ gs2.round_attempts = gs.round_attempts + 1
                   /\ WithoutAttemptFields(gs2) = WithoutAttemptFields(gs)
                   /\ ~gs2.game_completed
                   /\ gs2.teen_response # None )]_vars

\* a second failing submission in the second round of a session, answered
\* with the updated state
C23_Witness ==
    \E sid \in Sessions :
        LET gs == game_sessions[sid]
        IN  /\ PlayedMultiRound(gs)
            /\ response = Answer("submit_response", Some(sid), 200, "")
            /\ gs.current_round = 2
            /\ gs.round_attempts = 2
            /\ Len(gs.round_history) = 1
            /\ gs.multi_round_evaluation # None
            /\ ~gs.multi_round_evaluation[1].passed
            /\ ~gs.game_completed

\* C24: start_game with a scenario name that does not resolve is answered
\* 404 'Scenario not found' and adds no entry to the session map.
C24_UnknownScenarioNotFound ==
    [][(response'.op = "start_game" /\ response'.session = None)
          => ( /\ response'.status = 404
               /\ response'.detail = "Scenario not found"
               /\ game_sessions' = game_sessions )]_vars

\* C25: across any sequence of start_game and end_game calls, start_game
\* never assigns a session id that is in use, so a new session never
\* replaces the GameState of an active session.
C25_FreshSessionId ==
    [][\A sid \in Sessions :
          ( /\ response'.op = "start_game"
            /\ response'.status = 200
            /\ game_sessions' # game_sessions )
          => ( /\ response'.session # Some(sid)
               /\ sid \in DOMAIN game_sessions'
               /\ game_sessions'[sid] = game_sessions[sid] )]_vars

\* C26: for a multi-round session, under any sequential mix of submissions
\* and advance_to_next_round calls, current_round = len(round_history) + 1
\* while the game is not completed: no round is left without a RoundResult
\* and an advance after an automatic advance does not advance again.
C26_RoundMatchesHistory ==
    \A sid \in Sessions :
        LET gs == game_sessions[sid]
        IN  (gs.is_multi_round /\ ~gs.game_completed)
            => gs.current_round = Len(gs.round_history) + 1

\* C27: whenever a multi-round session has game_completed = true, its
\* scenario_completion is set, round_history has exactly max_rounds entries,
\* rounds_completed equals max_rounds and final_score is the integer part
\* of overall_score.
C27_CompletedHasCompletion ==
    \A sid \in Sessions :
        LET gs == game_sessions[sid]
        IN  (gs.is_multi_round /\ gs.game_completed)
            => ( /\ gs.scenario_completion # None
                 /\ Len(gs.round_history) = gs.max_rounds
                 /\ gs.scenario_completion[1].rounds_completed = gs.max_rounds
                 /\ gs.final_score =
                       Some(IntOf(gs.scenario_completion[1].overall_score)) )

\* C28: round progression does not depend on the locale: two sessions
\* created from one multi-round scenario, one with locale 'en' and one with
\* 'zh-HK', that receive the same sequence of evaluation outcomes have the
\* same current_round, round_history length and game_completed after each
\* submission.
C28_LocaleIndependentProgress ==
    DOMAIN game_sessions = TwoSessions =>
        /\ game_sessions[0].current_round = game_sessions[1].current_round
        /\ Len(game_sessions[0].round_history) = Len(game_sessions[1].round_history)
        /\ game_sessions[0].game_completed = game_sessions[1].game_completed

\* C29: every RoundResult in round_history has
\* 1 <= attempts_used <= max_round_attempts, and a RoundResult whose
\* evaluation did not pass has attempts_used = max_round_attempts: a round
\* is recorded as failed only after its whole attempt budget was used.
C29_RoundResultAttempts ==
    \A sid \in Sessions :
        LET gs == game_sessions[sid]
        IN  \A i \in 1..Len(gs.round_history) :
                LET round_result == gs.round_history[i]
                IN  /\ 1 <= round_result.attempts_used
                    /\ round_result.attempts_used <= gs.max_round_attempts
                    /\ ~round_result.evaluation.passed =>
                           round_result.attempts_used = gs.max_round_attempts

\* C30: a submission that ends in a request failure (submit_response
\* answering 500 because process_parent_response raised) leaves the
\* session's GameState as it was before the request: no attempt counter
\* increment and no round_history entry of the failed request remain.
C30_FailedSubmissionLeavesState ==
    [][ (response'.op = "submit_response" /\ response'.status = 500)
            => game_sessions' = game_sessions ]_vars

====
